---- MODULE Spec2Model ----
(***************************************************************************)
(* Model of the payment system's ledger store (package db), its service    *)
(* layer (package service) and the PostgreSQL session semantics the code   *)
(* relies on: every statement of PostgresRepository.Send is one atomic     *)
(* step of a database transaction opened with the server's default         *)
(* isolation level (READ COMMITTED): a SELECT reads the last committed     *)
(* row version (or the transaction's own write), an UPDATE takes a row     *)
(* lock held until commit or rollback, waits while another transaction     *)
(* holds it and then applies its expression to the latest committed        *)
(* version, and an UPDATE whose WHERE matches no row changes nothing and   *)
(* raises no error.  Balances and amounts (FLOAT columns, float64 in Go)   *)
(* are modelled by integers, i.e. by exact arithmetic.                     *)
(***************************************************************************)
EXTENDS Integers, Sequences, FiniteSets, TLC

\* ---------------------------------------------------------------- bounds
MaxSends == 2      \* Sends started in one behaviour
MaxFaults == 1     \* store faults (connection/statement failures) injected
MaxClock == 1      \* latest value of the server clock
MaxCount == 3      \* largest count passed to GetLastTransactions
MaxStartups == 2   \* times the process is started against the same store

\* ------------------------------------------------------- program constants
SeedBalance == 100 \* generateWallets(db, 10, 100.0)
SeedCount == 10

\* Workers (one goroutine per HTTP request), the wallet addresses (two of
\* the seeded ones) that take part in transfers, and one well-formed address
\* that is not in the wallets table.
Procs == {"p1", "p2"}
Seeded == {"w1", "w2"}
Addresses == Seeded \cup {"u"}
Amounts == {-60, 0, 60, 100}

\* --------------------------------------------------------------- results
Ok == "ok"
ErrBegin == "failed to begin transaction"
ErrSenderNoRows == "failed to get sender balance: sql: no rows in result set"
ErrSender == "failed to get sender balance"
ErrFunds == "insufficient funds"
ErrUpdSender == "failed to update sender balance"
ErrUpdReceiver == "failed to update receiver balance"
ErrRecord == "failed to record transaction"
ErrCommit == "commit failed"
None == "none"

VARIABLES
    wallets,       \* committed table wallets: address -> balance
    transactions,  \* committed table transactions, in commit order
    nextId,        \* the SERIAL sequence of transactions.id
    clock,         \* the server clock
    pc,            \* position of each worker inside Send
    from, to, amount,  \* arguments of the worker's current Send
    fromBalance,   \* the local variable fromBalance of Send
    txTime,        \* transaction start time (value of CURRENT_TIMESTAMP)
    writes,        \* uncommitted row versions of the worker's transaction
    ins,           \* uncommitted rows inserted into transactions
    result,        \* what the worker's last Send returned
    started,       \* number of Sends started
    faults,        \* number of store faults injected
    lastRead,      \* the last GetBalance call: address, returned balance and
                   \* error, and the parity of the number of calls so far
    lastHistory,   \* the last GetLastTransactions call: count, returned rows
                   \* and error, and the parity of the number of calls so far
    seedI,         \* loop index i of generateWallets (count when it is over)
    startups       \* number of times the process was started

vars == <<wallets, transactions, nextId, clock, pc, from, to, amount,
          fromBalance, txTime, writes, ins, result, started, faults, lastRead,
                   lastHistory, seedI, startups>>

NoWrites == [a \in {} |-> 0]

\* ------------------------------------------------------------ store model

\* Row version a statement of transaction p reads: its own uncommitted
\* write if it has one, else the last committed version.
\* Variant: the debit is computed from the balance the SELECT returned,
\* not from the row the UPDATE finds.
VisibleStale(p, a) ==
    IF pc[p] = "updFrom" THEN fromBalance[p]
    ELSE IF a \in DOMAIN writes[p] THEN writes[p][a] ELSE wallets[a]

Visible(p, a) ==
    IF a \in DOMAIN writes[p] THEN writes[p][a] ELSE wallets[a]

\* Row version a statement outside any transaction reads (r.db.QueryRow).
\* Variant: the read returns the newest version, committed or not.
CommittedDirty(a) ==
    IF \E q \in Procs : a \in DOMAIN writes[q]
    THEN writes[CHOOSE q \in Procs : a \in DOMAIN writes[q]][a]
    ELSE wallets[a]

Committed(a) == wallets[a]

\* Another transaction holds the row lock of a (it updated a and has not
\* finished).
\* Variant: an update locks the whole table, not the row.
LockedByOtherTable(p, a) ==
    \E q \in Procs \ {p} : writes[q] # NoWrites

LockedByOther(p, a) ==
    \E q \in Procs \ {p} : a \in DOMAIN writes[q]

\* balance = balance - $1 and balance = balance + $1
\* Variant: the credit is applied with the wrong sign.
CreditAsDebit(balance, amt) == balance - amt

Debit(balance, amt) == balance - amt
Credit(balance, amt) == balance + amt

\* if fromBalance < amount { return insufficient funds }
\* Variant: a balance equal to the amount is rejected too.
InsufficientFundsOrEqual(balance, amt) == balance <= amt

InsufficientFunds(balance, amt) == balance < amt

\* Effect of  UPDATE wallets SET balance = f(balance) WHERE address = a  on
\* the write set of p: no row matches -> nothing; otherwise a new version.
UpdatedWrites(p, a, newBalance) ==
    IF a \in DOMAIN wallets
    THEN [x \in (DOMAIN writes[p]) \cup {a} |->
             IF x = a THEN newBalance ELSE writes[p][x]]
    ELSE writes[p]

\* The committed wallets table after p's transaction commits.
CommitWallets(p) ==
    [a \in DOMAIN wallets |->
        IF a \in DOMAIN writes[p] THEN writes[p][a] ELSE wallets[a]]

\* The committed transactions table after p's transaction commits.
CommitTransactions(p) == transactions \o ins[p]

\* The committed tables after p's transaction is rolled back (defer
\* tx.Rollback()).
RollbackWallets(p) == wallets
RollbackTransactions(p) == transactions

TypeOK ==
    /\ \A a \in DOMAIN wallets : wallets[a] \in Int
    /\ seedI \in 0..SeedCount
    /\ startups \in 1..MaxStartups
    /\ nextId \in 1..(MaxSends + 1)
    /\ clock \in 0..MaxClock
    /\ started \in 0..MaxSends
    /\ faults \in 0..MaxFaults
    /\ \A p \in Procs :
          pc[p] \in {"idle", "select", "updFrom", "updTo", "insert", "commit", "done"}

Init ==
    /\ wallets = [a \in Seeded |-> SeedBalance]
    /\ transactions = << >>
    /\ nextId = 1
    /\ clock = 0
    /\ pc = [p \in Procs |-> "idle"]
    /\ from = [p \in Procs |-> "w1"]
    /\ to = [p \in Procs |-> "w1"]
    /\ amount = [p \in Procs |-> 0]
    /\ fromBalance = [p \in Procs |-> 0]
    /\ txTime = [p \in Procs |-> 0]
    /\ writes = [p \in Procs |-> NoWrites]
    /\ ins = [p \in Procs |-> << >>]
    /\ result = [p \in Procs |-> None]
    /\ started = 0
    /\ faults = 0
    /\ lastRead = [addr |-> "w1", balance |-> 0, err |-> None, seq |-> 0]
    /\ lastHistory = [count |-> 0, rows |-> << >>, err |-> None, seq |-> 0]
    /\ seedI = SeedCount
    /\ startups = 1

\* Send returns err: the deferred tx.Rollback() discards the transaction.
Return(p, err) ==
    /\ pc' = [pc EXCEPT ![p] = "done"]
    /\ result' = [result EXCEPT ![p] = err]
    /\ wallets' = RollbackWallets(p)
    /\ transactions' = RollbackTransactions(p)
    /\ writes' = [writes EXCEPT ![p] = NoWrites]
    /\ ins' = [ins EXCEPT ![p] = << >>]
    /\ txTime' = [txTime EXCEPT ![p] = 0]
    /\ from' = [from EXCEPT ![p] = "w1"]
    /\ to' = [to EXCEPT ![p] = "w1"]
    /\ amount' = [amount EXCEPT ![p] = 0]
    /\ fromBalance' = [fromBalance EXCEPT ![p] = 0]

\* tx, err := r.db.Begin(): the transaction starts at the server's current
\* time, which is d later than the last time the server clock was read.
Begin(p, f, t, a, d) ==
    /\ pc[p] \in {"idle", "done"}
    /\ started < MaxSends
    /\ clock + d <= MaxClock
    /\ clock' = clock + d
    /\ started' = started + 1
    /\ pc' = [pc EXCEPT ![p] = "select"]
    /\ from' = [from EXCEPT ![p] = f]
    /\ to' = [to EXCEPT ![p] = t]
    /\ amount' = [amount EXCEPT ![p] = a]
    /\ fromBalance' = [fromBalance EXCEPT ![p] = 0]
    /\ txTime' = [txTime EXCEPT ![p] = clock + d]
    /\ result' = [result EXCEPT ![p] = None]
    /\ UNCHANGED <<wallets, transactions, nextId, writes, ins, faults, lastRead,
                   lastHistory, seedI, startups>>

\* QueryRow(...).Scan(&fromBalance) finds no row: err is sql.ErrNoRows.
\* Variant: the error of Scan is not looked at.
NoRowsIgnored(a) == FALSE

NoRows(a) == a \notin DOMAIN wallets

\* What Scan leaves in fromBalance (declared var fromBalance float64): the
\* balance read, or the zero value when there is no row.
ScannedBalance(p, a) == IF a \in DOMAIN wallets THEN Visible(p, a) ELSE 0

\* SELECT balance FROM wallets WHERE address = from, then the funds check.
SelectBalance(p) ==
    /\ pc[p] = "select"
    /\ IF NoRows(from[p])
       THEN Return(p, ErrSenderNoRows)
       ELSE IF InsufficientFunds(ScannedBalance(p, from[p]), amount[p])
            THEN Return(p, ErrFunds)
            ELSE /\ fromBalance' = [fromBalance EXCEPT ![p] = ScannedBalance(p, from[p])]
                 /\ pc' = [pc EXCEPT ![p] = "updFrom"]
                 /\ UNCHANGED <<wallets, transactions, writes, ins, result,
                                txTime, from, to, amount>>
    /\ UNCHANGED <<nextId, clock, started, faults, lastRead,
                   lastHistory, seedI, startups>>

\* UPDATE wallets SET balance = balance - amount WHERE address = from
UpdateSender(p) ==
    /\ pc[p] = "updFrom"
    /\ ~LockedByOther(p, from[p])
    /\ writes' = [writes EXCEPT ![p] =
          UpdatedWrites(p, from[p], Debit(Visible(p, from[p]), amount[p]))]
    /\ pc' = [pc EXCEPT ![p] = "updTo"]
    /\ UNCHANGED <<wallets, transactions, nextId, clock, from, to, amount,
                   fromBalance, txTime, ins, result, started, faults, lastRead,
                   lastHistory, seedI, startups>>

\* UPDATE wallets SET balance = balance + amount WHERE address = to
UpdateReceiver(p) ==
    /\ pc[p] = "updTo"
    /\ ~LockedByOther(p, to[p])
    /\ writes' = [writes EXCEPT ![p] =
          IF to[p] \in DOMAIN wallets
          THEN UpdatedWrites(p, to[p], Credit(Visible(p, to[p]), amount[p]))
          ELSE writes[p]]
    /\ pc' = [pc EXCEPT ![p] = "insert"]
    /\ UNCHANGED <<wallets, transactions, nextId, clock, from, to, amount,
                   fromBalance, txTime, ins, result, started, faults, lastRead,
                   lastHistory, seedI, startups>>

\* INSERT INTO transactions (from_address, to_address, amount) VALUES (...)
\* id takes the next SERIAL value, timestamp defaults to CURRENT_TIMESTAMP.
InsertRecord(p) ==
    /\ pc[p] = "insert"
    /\ ins' = [ins EXCEPT ![p] = Append(ins[p],
          [id |-> nextId, from |-> from[p], to |-> to[p],
           amount |-> amount[p], timestamp |-> txTime[p]])]
    /\ nextId' = nextId + 1
    /\ pc' = [pc EXCEPT ![p] = "commit"]
    /\ UNCHANGED <<wallets, transactions, clock, from, to, amount,
                   fromBalance, txTime, writes, result, started, faults, lastRead,
                   lastHistory, seedI, startups>>

\* The server executes COMMIT for p's transaction and Send returns err.
Applied(p, err) ==
    /\ wallets' = CommitWallets(p)
    /\ transactions' = CommitTransactions(p)
    /\ writes' = [writes EXCEPT ![p] = NoWrites]
    /\ ins' = [ins EXCEPT ![p] = << >>]
    /\ txTime' = [txTime EXCEPT ![p] = 0]
    /\ from' = [from EXCEPT ![p] = "w1"]
    /\ to' = [to EXCEPT ![p] = "w1"]
    /\ amount' = [amount EXCEPT ![p] = 0]
    /\ fromBalance' = [fromBalance EXCEPT ![p] = 0]
    /\ pc' = [pc EXCEPT ![p] = "done"]
    /\ result' = [result EXCEPT ![p] = err]

\* return tx.Commit()
Commit(p) ==
    /\ pc[p] = "commit"
    /\ Applied(p, Ok)
    /\ UNCHANGED <<nextId, clock, started, faults, lastRead,
                   lastHistory, seedI, startups>>

\* A statement of p's transaction fails in the store (connection loss,
\* statement error); Send wraps the error by the statement it was running.
FaultError(p) ==
    CASE pc[p] = "select" -> ErrSender
      [] pc[p] = "updFrom" -> ErrUpdSender
      [] pc[p] = "updTo" -> ErrUpdReceiver
      [] pc[p] = "insert" -> ErrRecord
      [] OTHER -> ErrCommit

\* The statement's effect in the server is lost with p's transaction
\* (the deferred tx.Rollback() or the broken connection discards it), with
\* two exceptions the client cannot see: a failing tx.Commit() may have been
\* executed by the server before the reply was lost, in which case Send
\* returns the error while the unit is committed and the deferred Rollback
\* finds the transaction done; and a failing INSERT may have drawn its
\* SERIAL value, which is never given back.
StoreFault(p) ==
    /\ pc[p] \in {"select", "updFrom", "updTo", "insert", "commit"}
    /\ faults < MaxFaults
    /\ faults' = faults + 1
    /\ \/ Return(p, FaultError(p))
       \/ pc[p] = "commit" /\ Applied(p, FaultError(p))
    /\ nextId' \in (IF pc[p] = "insert" THEN {nextId, nextId + 1} ELSE {nextId})
    /\ UNCHANGED <<clock, started, lastRead, lastHistory, seedI, startups>>

\* r.db.Begin() fails: Send returns before any transaction exists.
BeginFault(p) ==
    /\ pc[p] \in {"idle", "done"}
    /\ started < MaxSends
    /\ faults < MaxFaults
    /\ started' = started + 1
    /\ faults' = faults + 1
    /\ pc' = [pc EXCEPT ![p] = "done"]
    /\ result' = [result EXCEPT ![p] = ErrBegin]
    /\ UNCHANGED <<wallets, transactions, nextId, clock, from, to, amount,
                   fromBalance, txTime, writes, ins, lastRead,
                   lastHistory, seedI, startups>>

\* The row an UPDATE of p is waiting for, when it waits.
WaitRow(p) == IF pc[p] = "updFrom" THEN from[p] ELSE to[p]

\* p's UPDATE waits for a row lock that q holds.
WaitsFor(p, q) ==
    /\ p # q
    /\ pc[p] \in {"updFrom", "updTo"}
    /\ WaitRow(p) \in DOMAIN writes[q]

\* p is on a cycle of the waits-for graph.
RECURSIVE ReachesIn(_, _, _)
ReachesIn(p, q, n) ==
    \/ WaitsFor(p, q)
    \/ /\ n > 0
       /\ \E r \in Procs : WaitsFor(p, r) /\ ReachesIn(r, q, n - 1)

\* Variant: the server has no deadlock detector.
DeadlockedNever(p) == FALSE

Deadlocked(p) == ReachesIn(p, p, Cardinality(Procs))

\* The server's deadlock detector aborts a transaction on a waits-for
\* cycle; its UPDATE returns an error and Send rolls back.
DeadlockAbort(p) ==
    /\ Deadlocked(p)
    /\ Return(p, FaultError(p))
    /\ UNCHANGED <<nextId, clock, started, faults, lastRead,
                   lastHistory, seedI, startups>>

\* GetBalance(address): SELECT balance FROM wallets WHERE address = $1 on
\* the pool, outside any transaction; no row -> (0, error).
ErrBalance == "failed to get balance"

GetBalance(a) ==
    /\ lastRead' = IF a \in DOMAIN wallets
                   THEN [addr |-> a, balance |-> Committed(a), err |-> None,
                         seq |-> 1 - lastRead.seq]
                   ELSE [addr |-> a, balance |-> 0, err |-> ErrBalance,
                         seq |-> 1 - lastRead.seq]
    /\ UNCHANGED <<wallets, transactions, nextId, clock, pc, from, to, amount,
                   fromBalance, txTime, writes, ins, result, started, faults,
                   lastHistory, seedI, startups>>

\* Transfers of any amount between any addresses, all at one server time.
Next ==
    \/ \E p \in Procs, f \in Addresses, t \in Addresses, a \in Amounts :
          Begin(p, f, t, a, 0)
    \/ \E p \in Procs : SelectBalance(p)
    \/ \E p \in Procs : UpdateSender(p)
    \/ \E p \in Procs : UpdateReceiver(p)
    \/ \E p \in Procs : InsertRecord(p)
    \/ \E p \in Procs : Commit(p)
    \/ \E p \in Procs : StoreFault(p)
    \/ \E p \in Procs : BeginFault(p)
    \/ \E p \in Procs : DeadlockAbort(p)

Spec == Init /\ [][Next]_vars

\* Funded transfers from seeded wallets, observed by concurrent GetBalance
\* calls.
NextRead ==
    \/ \E p \in Procs, f \in Seeded, t \in Addresses :
          Begin(p, f, t, SeedBalance, 0)
    \/ \E p \in Procs : SelectBalance(p)
    \/ \E p \in Procs : UpdateSender(p)
    \/ \E p \in Procs : UpdateReceiver(p)
    \/ \E p \in Procs : InsertRecord(p)
    \/ \E p \in Procs : Commit(p)
    \/ \E p \in Procs : StoreFault(p)
    \/ \E p \in Procs : DeadlockAbort(p)
    \/ \E a \in Addresses : GetBalance(a)

SpecRead == Init /\ [][NextRead]_vars

\* ------------------------------------------------------------- history

ErrQuery == "failed to query transactions"

\* Values of count: the service and the repository take any int.
Counts == -1..MaxCount

Min(a, b) == IF a < b THEN a ELSE b

\* The orders in which n rows can be returned.
Perms(n) == {f \in [1..n -> 1..n] : \A i, j \in 1..n : f[i] = f[j] => i = j}

\* ORDER BY timestamp DESC: timestamps do not increase along s.
\* Variant: ORDER BY timestamp (ascending).
SortedAsc(s) ==
    \A i, j \in 1..Len(s) : i < j => s[i].timestamp <= s[j].timestamp

SortedDesc(s) ==
    \A i, j \in 1..Len(s) : i < j => s[i].timestamp >= s[j].timestamp

\* LIMIT $1 applied to the ordered rows.
Limit(s, count) == SubSeq(s, 1, Min(count, Len(s)))

\* GetLastTransactions(count): SELECT ... FROM transactions ORDER BY
\* timestamp DESC LIMIT count on the committed table.  Rows of equal
\* timestamp come in an order the query does not fix (f).  A negative LIMIT
\* is an error of the store.  The id column is not selected; the rows keep
\* it here as their identity.
GetLastTransactions(count, f) ==
    /\ LET s == [i \in 1..Len(transactions) |-> transactions[f[i]]] IN
          /\ SortedDesc(s)
          /\ lastHistory' =
                IF count < 0
                THEN [count |-> count, rows |-> << >>, err |-> ErrQuery,
                      seq |-> 1 - lastHistory.seq]
                ELSE [count |-> count, rows |-> Limit(s, count), err |-> None,
                      seq |-> 1 - lastHistory.seq]
    /\ UNCHANGED <<wallets, transactions, nextId, clock, pc, from, to, amount,
                   fromBalance, txTime, writes, ins, result, started, faults,
                   lastRead, seedI, startups>>

\* Funded transfers between the seeded wallets, started at advancing server
\* times, and history queries.
NextHistory ==
    \/ \E p \in Procs, f \in Seeded, t \in Seeded, d \in 0..1 :
          Begin(p, f, t, SeedBalance, d)
    \/ \E p \in Procs : SelectBalance(p)
    \/ \E p \in Procs : UpdateSender(p)
    \/ \E p \in Procs : UpdateReceiver(p)
    \/ \E p \in Procs : InsertRecord(p)
    \/ \E p \in Procs : Commit(p)
    \/ \E p \in Procs : DeadlockAbort(p)
    \/ \E count \in Counts, f \in Perms(Len(transactions)) :
          GetLastTransactions(count, f)

SpecHistory == Init /\ [][NextHistory]_vars

\* ------------------------------------------------------------- seeding

\* INSERT INTO wallets (address, balance) VALUES (a, b)
\* ON CONFLICT (address) DO NOTHING
InsertWallet(w, a, b) ==
    IF a \in DOMAIN w
    THEN w
    ELSE [x \in DOMAIN w \cup {a} |-> IF x = a THEN b ELSE w[x]]

\* The addresses generateRandomAddress can return, up to renaming: one
\* that is not in the table yet, or any that is.
DrawnAddresses == DOMAIN wallets \cup {Cardinality(DOMAIN wallets) + 1}

\* One iteration of the loop of generateWallets(db, count, balance).
GenerateWallet(count, balance) ==
    /\ seedI < count
    /\ \E a \in DrawnAddresses : wallets' = InsertWallet(wallets, a, balance)
    /\ seedI' = seedI + 1
    /\ UNCHANGED <<transactions, nextId, clock, pc, from, to, amount,
                   fromBalance, txTime, writes, ins, result, started, faults,
                   lastRead, lastHistory, startups>>

\* The process is started again on the same database: main calls
\* NewPostgresRepository, which runs initTables (no effect on existing
\* tables) and generateWallets from i = 0.
Restart ==
    /\ seedI = SeedCount
    /\ startups < MaxStartups
    /\ startups' = startups + 1
    /\ seedI' = 0
    /\ UNCHANGED <<wallets, transactions, nextId, clock, pc, from, to, amount,
                   fromBalance, txTime, writes, ins, result, started, faults,
                   lastRead, lastHistory>>

\* The first start, on an empty database, right after initTables.
InitSeed ==
    /\ wallets = NoWrites
    /\ transactions = << >>
    /\ nextId = 1
    /\ clock = 0
    /\ pc = [p \in Procs |-> "idle"]
    /\ from = [p \in Procs |-> "w1"]
    /\ to = [p \in Procs |-> "w1"]
    /\ amount = [p \in Procs |-> 0]
    /\ fromBalance = [p \in Procs |-> 0]
    /\ txTime = [p \in Procs |-> 0]
    /\ writes = [p \in Procs |-> NoWrites]
    /\ ins = [p \in Procs |-> << >>]
    /\ result = [p \in Procs |-> None]
    /\ started = 0
    /\ faults = 0
    /\ lastRead = [addr |-> "w1", balance |-> 0, err |-> None, seq |-> 0]
    /\ lastHistory = [count |-> 0, rows |-> << >>, err |-> None, seq |-> 0]
    /\ seedI = 0
    /\ startups = 1

NextSeed ==
    \/ GenerateWallet(SeedCount, SeedBalance)
    \/ Restart

SpecSeed == InitSeed /\ [][NextSeed]_vars

\* ------------------------------------------------- disjoint transfers

\* Four seeded wallets; each worker transfers within a pair of its own.
Pair(p) == IF p = "p1" THEN {"w1", "w2"} ELSE {"w3", "w4"}

InitDisjoint ==
    /\ wallets = [a \in UNION {Pair(p) : p \in Procs} |-> SeedBalance]
    /\ transactions = << >>
    /\ nextId = 1
    /\ clock = 0
    /\ pc = [p \in Procs |-> "idle"]
    /\ from = [p \in Procs |-> "w1"]
    /\ to = [p \in Procs |-> "w1"]
    /\ amount = [p \in Procs |-> 0]
    /\ fromBalance = [p \in Procs |-> 0]
    /\ txTime = [p \in Procs |-> 0]
    /\ writes = [p \in Procs |-> NoWrites]
    /\ ins = [p \in Procs |-> << >>]
    /\ result = [p \in Procs |-> None]
    /\ started = 0
    /\ faults = 0
    /\ lastRead = [addr |-> "w1", balance |-> 0, err |-> None, seq |-> 0]
    /\ lastHistory = [count |-> 0, rows |-> << >>, err |-> None, seq |-> 0]
    /\ seedI = SeedCount
    /\ startups = 1

\* Funded transfers of positive amounts, each worker inside its own pair,
\* without store faults.
NextDisjoint ==
    \/ \E p \in Procs : \E f \in Pair(p) : \E t \in Pair(p) \ {f} :
          \E a \in Amounts :
             /\ a > 0
             /\ wallets[f] >= a
             /\ Begin(p, f, t, a, 0)
    \/ \E p \in Procs : SelectBalance(p)
    \/ \E p \in Procs : UpdateSender(p)
    \/ \E p \in Procs : UpdateReceiver(p)
    \/ \E p \in Procs : InsertRecord(p)
    \/ \E p \in Procs : Commit(p)

SpecDisjoint == InitDisjoint /\ [][NextDisjoint]_vars

\* ------------------------------------------------------------- service

\* func (s *Service) Send(from, to, amount) error { return
\* s.repo.Send(from, to, amount) }: the call enters PostgresRepository.Send
\* with the same arguments and returns what it returns.
\* Variant: the service refuses amount <= 0 before calling the repository.
ServiceSendChecked(p, f, t, a, d) == a > 0 /\ Begin(p, f, t, a, d)

ServiceSend(p, f, t, a, d) == Begin(p, f, t, a, d)

\* return s.repo.GetBalance(address)
ServiceGetBalance(a) == GetBalance(a)

\* return s.repo.GetLastTransactions(count)
ServiceGetLastTransactions(count, f) == GetLastTransactions(count, f)

\* The worker of the one client that calls the service.
Caller == CHOOSE p \in Procs : TRUE

\* The amounts the client sends: one the handler would refuse and one
\* the sender can pay.
ServiceAmounts == {0, SeedBalance}

\* The counts the client asks for: one the store refuses and the largest.
ServiceCounts == {-1, MaxCount}

\* The client is between two calls.
Resting == pc[Caller] \in {"idle", "done"}

\* All calls one client makes through the service, one at a time:
\* transfers from one seeded wallet to another, balance reads and history
\* queries.
NextService ==
    \/ \E f \in Seeded : \E t \in Seeded \ {f}, a \in ServiceAmounts :
          ServiceSend(Caller, f, t, a, 0)
    \/ SelectBalance(Caller)
    \/ UpdateSender(Caller)
    \/ UpdateReceiver(Caller)
    \/ InsertRecord(Caller)
    \/ Commit(Caller)
    \/ Resting /\ \E a \in Addresses : ServiceGetBalance(a)
    \/ Resting /\ \E count \in ServiceCounts, f \in Perms(Len(transactions)) :
                     ServiceGetLastTransactions(count, f)

SpecService == Init /\ [][NextService]_vars

\* The same client calling the repository's methods directly, without the
\* service in between.
NextDirect ==
    \/ \E f \in Seeded : \E t \in Seeded \ {f}, a \in ServiceAmounts :
          Begin(Caller, f, t, a, 0)
    \/ SelectBalance(Caller)
    \/ UpdateSender(Caller)
    \/ UpdateReceiver(Caller)
    \/ InsertRecord(Caller)
    \/ Commit(Caller)
    \/ Resting /\ \E a \in Addresses : GetBalance(a)
    \/ Resting /\ \E count \in ServiceCounts, f \in Perms(Len(transactions)) :
                     GetLastTransactions(count, f)

\* ---------------------------------------------------------- fair scheduling

\* The next statement of p's Send: each is one round trip to the store,
\* which answers as soon as the row it needs is not locked by another
\* transaction.
SendStep(p) ==
    \/ SelectBalance(p)
    \/ UpdateSender(p)
    \/ UpdateReceiver(p)
    \/ InsertRecord(p)
    \/ Commit(p)

\* Transfers of any amount between the seeded wallets, in both directions.
NextFair ==
    \/ \E p \in Procs, f \in Seeded, t \in Seeded, a \in Amounts :
          Begin(p, f, t, a, 0)
    \/ \E p \in Procs : SendStep(p)
    \/ \E p \in Procs : DeadlockAbort(p)

\* Every goroutine's pending statement is eventually executed by the store,
\* and the deadlock detector eventually runs while a cycle exists.
SpecFair ==
    /\ Init
    /\ [][NextFair]_vars
    /\ \A p \in Procs : WF_vars(SendStep(p))
    /\ WF_vars(\E p \in Procs : DeadlockAbort(p))

\* ------------------------------------------------------------- properties

RECURSIVE SumOver(_, _)
SumOver(f, S) ==
    IF S = {} THEN 0
    ELSE LET x == CHOOSE y \in S : TRUE IN f[x] + SumOver(f, S \ {x})

\* Sum of all wallet balances of a wallets table.
Total(w) == SumOver(w, DOMAIN w)

InTx == {"select", "updFrom", "updTo", "insert", "commit"}

\* The step is p's Send returning success / returning an error.
ReturnsOk(p) == pc[p] = "commit" /\ pc'[p] = "done" /\ result'[p] = Ok
ReturnsError(p) ==
    \/ pc[p] \in InTx /\ pc'[p] = "done" /\ result'[p] # Ok
    \/ pc[p] \notin InTx /\ started' # started /\ result'[p] = ErrBegin

\* C1: solvency - in every committed state every wallet's balance is >= 0.
\* Stated for ledgers whose records all have positive amounts and existing
\* receivers, so that a violation rests on interleaved Sends alone.
C1_Solvency ==
    (\A i \in 1..Len(transactions) :
        transactions[i].amount > 0 /\ transactions[i].to \in DOMAIN wallets)
    => \A a \in DOMAIN wallets : wallets[a] >= 0

\* C2: no lost update - two Sends debiting the same sender, whose balance
\* covers either amount alone but not both, never both commit: starting from
\* the seeded balances, the ledger never consists of exactly two such
\* transfers.
C2_NoLostUpdate ==
    ~ /\ Len(transactions) = 2
      /\ transactions[1].from = transactions[2].from
      /\ transactions[1].from \in DOMAIN wallets
      /\ \A i \in 1..2 :
            /\ transactions[i].amount > 0
            /\ transactions[i].amount <= SeedBalance
            /\ transactions[i].to # transactions[i].from
      /\ transactions[1].amount + transactions[2].amount > SeedBalance

\* C3: conservation - a Send that returns success leaves the sum of all
\* wallet balances unchanged, whatever its sender, receiver and amount.
C3_Conservation ==
    [][\A p \in Procs : ReturnsOk(p) => Total(wallets') = Total(wallets)]_vars

\* C4: exact debit and credit - a successful Send(A, B, a) between two
\* distinct wallets lowers balance(A) by exactly a, raises balance(B) by
\* exactly a and leaves every other wallet's balance unchanged.
C4_ExactDebitCredit ==
    [][\A p \in Procs :
          (ReturnsOk(p) /\ from[p] # to[p] /\ to[p] \in DOMAIN wallets) =>
             /\ wallets'[from[p]] = wallets[from[p]] - amount[p]
             /\ wallets'[to[p]] = wallets[to[p]] + amount[p]
             /\ \A a \in DOMAIN wallets \ {from[p], to[p]} : wallets'[a] = wallets[a]
             /\ DOMAIN wallets' = DOMAIN wallets]_vars

\* A transfer of SeedBalance from w1 to w2 is the only thing that happened.
C4_Witness ==
    /\ Len(transactions) = 1
    /\ transactions[1].from = "w1" /\ transactions[1].to = "w2"
    /\ transactions[1].amount = SeedBalance
    /\ wallets["w1"] = 0 /\ wallets["w2"] = 2 * SeedBalance
    /\ \E p \in Procs : result[p] = Ok

\* C5: missing receiver - a Send whose receiver is not an existing wallet
\* returns an error, changes no balance and appends no record.
C5_MissingReceiver ==
    [][\A p \in Procs :
          (pc[p] \in InTx /\ pc'[p] = "done" /\ to[p] \notin DOMAIN wallets) =>
             /\ result'[p] # Ok
             /\ wallets' = wallets
             /\ transactions' = transactions]_vars

\* C6: atomicity on failure - a Send that returns an error, at whichever
\* statement it fails, leaves the committed wallets and transactions tables
\* as they were and nothing of its unit of work behind.
C6_AtomicOnFailure ==
    [][\A p \in Procs :
          ReturnsError(p) =>
             /\ wallets' = wallets
             /\ transactions' = transactions
             /\ writes'[p] = NoWrites
             /\ ins'[p] = << >>]_vars

\* C7: invalid amount - a Send with amount <= 0 is rejected with an error,
\* changes no balance and appends no record.
C7_InvalidAmount ==
    [][\A p \in Procs :
          (pc[p] \in InTx /\ pc'[p] = "done" /\ amount[p] <= 0) =>
             /\ result'[p] # Ok
             /\ wallets' = wallets
             /\ transactions' = transactions]_vars

\* C8: positive amounts only - every record of the transactions table has
\* amount > 0.
C8_PositiveAmounts ==
    \A i \in 1..Len(transactions) : transactions[i].amount > 0

\* The step is a GetBalance(a) call.
IsGetBalance(a) == lastRead'.seq # lastRead.seq /\ lastRead'.addr = a

\* C9: read isolation - GetBalance of a wallet returns its committed
\* balance: while a Send has debited its sender (credited its receiver) and
\* not committed, the balance returned is the one without the debit (the
\* credit); and the committed balances change only when the store executes
\* a Send's COMMIT (whatever Send then returns), which applies all of the
\* transfer's updates at once.
C9_ReadIsolation ==
    [][/\ \A a \in DOMAIN wallets :
             IsGetBalance(a) =>
                /\ lastRead'.err = None
                /\ lastRead'.balance = wallets[a]
                /\ \A p \in Procs :
                      /\ (pc[p] \in {"updTo", "insert", "commit"}
                             /\ from[p] = a /\ to[p] # a)
                          => lastRead'.balance = writes[p][a] + amount[p]
                      /\ (pc[p] \in {"insert", "commit"}
                             /\ to[p] = a /\ from[p] # a)
                          => lastRead'.balance = writes[p][a] - amount[p]
       /\ wallets' # wallets =>
             \E p \in Procs :
                /\ pc[p] = "commit" /\ pc'[p] = "done"
                /\ \A a \in DOMAIN writes[p] : wallets'[a] = writes[p][a]
                /\ \A a \in DOMAIN wallets \ DOMAIN writes[p] : wallets'[a] = wallets[a]
      ]_vars

\* GetBalance(w1) returned the seeded balance while a Send from w1 had
\* debited w1, credited w2 and inserted its record, but not committed.
C9_Witness ==
    /\ lastRead.addr = "w1" /\ lastRead.err = None /\ lastRead.seq = 1
    /\ lastRead.balance = SeedBalance
    /\ \E p \in Procs :
          /\ pc[p] = "commit" /\ from[p] = "w1" /\ to[p] = "w2"
          /\ writes[p]["w1"] = 0

\* C10: insufficient funds - a Send whose sender balance at its check is
\* strictly below the amount returns "insufficient funds" with no update
\* and no insert; one whose sender balance equals the amount passes the
\* check.
C10_InsufficientFunds ==
    [][\A p \in Procs :
          (pc[p] = "select" /\ pc'[p] # "select" /\ faults' = faults
              /\ from[p] \in DOMAIN wallets) =>
             /\ wallets[from[p]] < amount[p] =>
                   /\ pc'[p] = "done" /\ result'[p] = ErrFunds
                   /\ wallets' = wallets /\ transactions' = transactions
                   /\ writes'[p] = NoWrites /\ ins'[p] = << >>
                   /\ nextId' = nextId
             /\ wallets[from[p]] >= amount[p] =>
                   /\ pc'[p] = "updFrom" /\ result'[p] = None]_vars

\* A Send was rejected for insufficient funds after an earlier transfer
\* had taken the sender below the amount; nothing but that transfer is
\* recorded.
C10_Witness ==
    /\ \E p \in Procs : result[p] = ErrFunds /\ pc[p] = "done"
    /\ Len(transactions) = 1
    /\ \E a \in DOMAIN wallets : wallets[a] < SeedBalance /\ wallets[a] > 0

\* C11: missing sender - a Send whose sender is not an existing wallet
\* returns the no-rows error of its SELECT, before any update: no later
\* statement of a Send runs for a missing sender, no balance changes, no
\* record is appended, no id is drawn and no wallet is created.
C11_MissingSender ==
    [][\A p \in Procs :
          /\ pc[p] \in {"updFrom", "updTo", "insert", "commit"}
                => from[p] \in DOMAIN wallets
          /\ (pc[p] = "select" /\ pc'[p] # "select" /\ faults' = faults
                 /\ from[p] \notin DOMAIN wallets) =>
                /\ pc'[p] = "done" /\ result'[p] = ErrSenderNoRows
                /\ wallets' = wallets /\ transactions' = transactions
                /\ writes'[p] = NoWrites /\ ins'[p] = << >>
                /\ nextId' = nextId]_vars

\* A Send from the address without a wallet returned the no-rows error and
\* the committed tables are the seeded ones.
C11_Witness ==
    /\ \E p \in Procs : result[p] = ErrSenderNoRows /\ pc[p] = "done"
    /\ transactions = << >>
    /\ nextId = 1
    /\ wallets = [a \in Seeded |-> SeedBalance]

\* C12: append-only log, one record per transfer - a Send that returns
\* success appends exactly one record, carrying its sender, receiver and
\* amount, to the end of the table; every other step, a failed Send
\* included, leaves the table as it is, so records are never modified or
\* removed and their number is the number of committed Sends.
C12_AppendOnly ==
    [][IF \E p \in Procs : ReturnsOk(p)
       THEN \A p \in Procs :
               ReturnsOk(p) =>
                  /\ Len(transactions') = Len(transactions) + 1
                  /\ SubSeq(transactions', 1, Len(transactions)) = transactions
                  /\ transactions'[Len(transactions')].from = from[p]
                  /\ transactions'[Len(transactions')].to = to[p]
                  /\ transactions'[Len(transactions')].amount = amount[p]
       ELSE transactions' = transactions]_vars

\* The step is a GetLastTransactions(count) call.
IsGetLast(count) ==
    lastHistory'.seq # lastHistory.seq /\ lastHistory'.count = count

\* C13: history tie-break - the rows GetLastTransactions returns are in
\* descending order of timestamp, and rows of equal timestamp in descending
\* order of id.
C13_TieBreak ==
    \A i, j \in 1..Len(lastHistory.rows) :
       i < j =>
          \/ lastHistory.rows[i].timestamp > lastHistory.rows[j].timestamp
          \/ /\ lastHistory.rows[i].timestamp = lastHistory.rows[j].timestamp
             /\ lastHistory.rows[i].id > lastHistory.rows[j].id

\* The committed transfers were recorded one after another at strictly
\* increasing timestamps.
Sequential ==
    \A i, j \in 1..Len(transactions) :
       i < j => /\ transactions[i].timestamp < transactions[j].timestamp
                /\ transactions[i].id < transactions[j].id

\* C14: history order and size - when T1 .. Tn were committed one after
\* another at strictly increasing timestamps, GetLastTransactions(k) with
\* k > 0 returns exactly min(k, n) rows, Tn first, then Tn-1, ..., and
\* changes nothing else.
C14_OrderAndSize ==
    [][\A k \in Counts :
          (IsGetLast(k) /\ k > 0 /\ Sequential) =>
             LET n == Len(transactions) IN
                /\ lastHistory'.err = None
                /\ Len(lastHistory'.rows) = Min(k, n)
                /\ \A i \in 1..Min(k, n) :
                      lastHistory'.rows[i] = transactions[n + 1 - i]
                /\ UNCHANGED <<wallets, transactions, nextId, clock, pc, from,
                               to, amount, fromBalance, txTime, writes, ins,
                               result, started, faults, lastRead, seedI,
                               startups>>]_vars

\* Two transfers were committed at timestamps 0 and 1 and
\* GetLastTransactions(1) returned the later one alone.
C14_Witness ==
    /\ Len(transactions) = 2
    /\ transactions[1].timestamp = 0 /\ transactions[2].timestamp = 1
    /\ lastHistory.seq = 1 /\ lastHistory.count = 1
    /\ lastHistory.rows = <<transactions[2]>>

\* C15: timestamp follows id - of two records of the table, the one with
\* the smaller id does not have the larger timestamp.
C15_TimestampFollowsId ==
    \A i, j \in 1..Len(transactions) :
       transactions[i].id < transactions[j].id
          => transactions[i].timestamp <= transactions[j].timestamp

\* C16: idempotent seeding - seeding a store that already holds the seeded
\* wallets leaves the wallet count and every balance as they are.
C16_IdempotentSeeding ==
    [][Cardinality(DOMAIN wallets) >= SeedCount => wallets' = wallets]_vars

\* The balances after running the transfers recs[i..] one after another on
\* the balances w, and whether each of them passed its funds check.
RECURSIVE Replay(_, _, _)
Replay(w, recs, i) ==
    IF i > Len(recs) THEN [ok |-> TRUE, balances |-> w]
    ELSE LET r == recs[i]
             w1 == [w EXCEPT ![r.from] = @ - r.amount]
             w2 == [w1 EXCEPT ![r.to] = @ + r.amount]
             rest == Replay(w2, recs, i + 1)
         IN [ok |-> rest.ok /\ w[r.from] >= r.amount, balances |-> rest.balances]

\* C17: disjoint transfers are independent - with each worker sending
\* funded transfers inside its own pair of wallets, no UPDATE ever waits
\* for the other worker, no Send is aborted or fails, and the committed
\* balances are those of running the committed transfers one after
\* another from the seeded balances, each passing its funds check.
C17_DisjointIndependent ==
    /\ \A p \in Procs :
          /\ pc[p] = "updFrom" => ENABLED UpdateSender(p)
          /\ pc[p] = "updTo" => ENABLED UpdateReceiver(p)
          /\ ~ ENABLED DeadlockAbort(p)
          /\ result[p] \in {None, Ok}
    /\ LET serial == Replay([a \in DOMAIN wallets |-> SeedBalance], transactions, 1)
       IN serial.ok /\ serial.balances = wallets

\* Both workers have committed a transfer inside their pairs, and the two
\* Sends overlapped: the one that inserted first committed last.
C17_Witness ==
    /\ \A p \in Procs : pc[p] = "done" /\ result[p] = Ok
    /\ Len(transactions) = 2
    /\ transactions[1].id = 2 /\ transactions[2].id = 1
    /\ transactions[1].from \in Pair("p1") /\ transactions[2].from \in Pair("p2")

RECURSIVE NetOf(_, _, _)
NetOf(a, recs, i) ==
    IF i > Len(recs) THEN 0
    ELSE (IF recs[i].to = a THEN recs[i].amount ELSE 0)
         - (IF recs[i].from = a THEN recs[i].amount ELSE 0)
         + NetOf(a, recs, i + 1)

\* C19: ledger matches log - in every committed state each wallet's balance
\* is its seeded balance plus the amounts of the committed records naming
\* it as receiver minus the amounts of the committed records naming it as
\* sender, whatever the interleaving of the Sends.
C19_LedgerMatchesLog ==
    \A a \in DOMAIN wallets :
        wallets[a] = SeedBalance + NetOf(a, transactions, 1)

\* Two Sends debiting the same wallet overlapped (each passed the funds
\* check on the balance before the other's debit) and both committed: both
\* debits are in the balance.
C19_Witness ==
    /\ Len(transactions) = 2
    /\ \A i \in 1..2 : /\ transactions[i].from = "w1"
                        /\ transactions[i].to = "w2"
                        /\ transactions[i].amount = 60
    /\ wallets["w1"] = SeedBalance - 120
    /\ wallets["w2"] = SeedBalance + 120

\* C20: every Send terminates - under fair scheduling each started Send
\* eventually returns (committed, or with an error and rolled back), also
\* when two Sends update the same two rows in opposite order.
C20_SendTerminates ==
    \A p \in Procs : (pc[p] \in InTx) ~> (pc[p] = "done")

\* Two Sends in opposite directions between the same two wallets locked
\* one row each; the detector aborted one, which returned the error of its
\* second UPDATE with nothing applied, and the other committed.
C20_Witness ==
    \E p \in Procs, q \in Procs :
        /\ pc[p] = "done" /\ result[p] = ErrUpdReceiver
        /\ pc[q] = "done" /\ result[q] = Ok
        /\ Len(transactions) = 1
        /\ transactions[1].from = "w2" /\ transactions[1].to = "w1"
        /\ transactions[1].amount = 60
        /\ wallets["w1"] = SeedBalance + 60
        /\ wallets["w2"] = SeedBalance - 60
        /\ started = 2

====
